---------------------------- MODULE Spec2Model ----------------------------
(***************************************************************************)
(* veza-chat-server/fix_compilation_errors.py: a script that rewrites nine *)
(* Rust source files in place with re.sub and then runs `cargo check`.     *)
(*                                                                         *)
(* A text is a sequence of pieces; the characters of the file are the      *)
(* concatenation of its pieces.  Texts and patterns are cut at the same    *)
(* places (every position where a pattern of the script can begin, end or  *)
(* fail), so that a match of a regular expression on the characters is a   *)
(* match of the cut pattern on the pieces and conversely.  The pieces      *)
(* "(", ")", ".", "?", "\"", "\\" and "\n" are single characters.          *)
(***************************************************************************)
EXTENDS Integers, Sequences, FiniteSets, TLC

VARIABLES
    dirExists,   \* whether the directory of os.chdir exists
    present,     \* the target files that exist on disk
    original,    \* the content of each target file when the run starts
    disk,        \* the content of each target file now
    content,     \* the local variable `content` of the function in progress
    pc,          \* position of main()
    idx,         \* position in Targets of the file in progress
    opened,      \* the files that have been opened with mode 'w'
    failedAt,    \* where the uncaught exception was raised, "" if none
    verifyCount  \* number of os.system("cargo check") calls made

vars == <<dirExists, present, original, disk, content, pc, idx, opened,
          failedAt, verifyCount>>

-----------------------------------------------------------------------------
(* Bounds of the input texts and of the set of missing files.              *)

MaxStoreParts == 2
MaxHandlerParts == 2
MaxSeverityParts == 3
MaxImportParts == 2
MaxMissing == 2

-----------------------------------------------------------------------------
(* The regular expressions of the script, as far as the script uses them.  *)

Lit(s) == [t |-> "lit", s |-> s]
\* `.`: any character but a newline
AnyChar == [t |-> "any"]
\* `.*`: greedy, any characters but newlines
DotStar == [t |-> "star"]
\* `([^c]+)`: greedy, group 1, one or more characters other than c
GroupNot(c) == [t |-> "group", c |-> c]

\* the pieces that are one character long
OneChar == {"(", ")", ".", "?", "\"", "\\", "\n", "x"}

NoMatch == <<0, 0, 0>>

Max(S) == CHOOSE m \in S : \A n \in S : n <= m

\* The first position >= i of text that holds a piece outside the class of
\* the repetition e (Len(text) + 1 if none).
RECURSIVE RunEnd(_, _, _)
RunEnd(e, text, i) ==
    IF i > Len(text) THEN i
    ELSE IF (e.t = "star" /\ text[i] = "\n") \/ (e.t = "group" /\ text[i] = e.c)
         THEN i
         ELSE RunEnd(e, text, i + 1)

\* re's backtracking match of pat[k..] at position i of text:
\* <<position after the match, start of group 1, position after group 1>>,
\* or NoMatch.  A repetition takes the longest run that lets the rest match.
RECURSIVE MatchFrom(_, _, _, _, _)
MatchFrom(pat, k, text, i, grp) ==
    IF k > Len(pat) THEN <<i, grp[1], grp[2]>>
    ELSE LET e == pat[k] IN
         CASE e.t = "lit" ->
                IF i <= Len(text) /\ text[i] = e.s
                THEN MatchFrom(pat, k + 1, text, i + 1, grp)
                ELSE NoMatch
           [] e.t = "any" ->
                IF i <= Len(text) /\ text[i] \in OneChar \ {"\n"}
                THEN MatchFrom(pat, k + 1, text, i + 1, grp)
                ELSE NoMatch
           [] e.t = "star" ->
                LET ends == {j \in i..RunEnd(e, text, i) :
                                MatchFrom(pat, k + 1, text, j, grp) # NoMatch}
                IN  IF ends = {} THEN NoMatch
                    ELSE MatchFrom(pat, k + 1, text, Max(ends), grp)
           [] e.t = "group" ->
                LET ends == {j \in (i + 1)..RunEnd(e, text, i) :
                                MatchFrom(pat, k + 1, text, j, <<i, j>>) # NoMatch}
                IN  IF ends = {} THEN NoMatch
                    ELSE MatchFrom(pat, k + 1, text, Max(ends), <<i, Max(ends)>>)

Match(pat, text, i) == MatchFrom(pat, 1, text, i, <<0, 0>>)

\* the group reference \1 of a replacement template
Group1 == "\\1"

\* The replacement template with \1 filled in from the match m.
RECURSIVE Expand(_, _, _)
Expand(repl, text, m) ==
    IF repl = <<>> THEN <<>>
    ELSE LET h == Head(repl) IN
         (IF h = Group1 THEN SubSeq(text, m[2], m[3] - 1) ELSE <<h>>)
            \o Expand(Tail(repl), text, m)

\* re.sub(pat, repl, text, count): the matches are found left to right and
\* do not overlap; count = 0 replaces them all, count = n the first n.
RECURSIVE SubFrom(_, _, _, _, _, _)
SubFrom(pat, repl, text, count, i, n) ==
    IF i > Len(text) THEN <<>>
    ELSE LET m == Match(pat, text, i) IN
         IF (count = 0 \/ n < count) /\ m # NoMatch
         THEN Expand(repl, text, m) \o SubFrom(pat, repl, text, count, m[1], n + 1)
         ELSE <<text[i]>> \o SubFrom(pat, repl, text, count, i + 1, n)

re_sub(pat, repl, text, count) == SubFrom(pat, repl, text, count, 1, 0)

Rule(pat, repl) == [pat |-> pat, repl |-> repl]


-----------------------------------------------------------------------------
(* fix_message_store_errors: the rules of src/message_store.rs             *)

map_err_database ==
    Rule(<<Lit("."), Lit("map_err"), Lit("("), Lit("ChatError::Database"),
           Lit(")"), Lit("?")>>,
         <<".", "map_err", "(", "|e| ChatError::database_error", "(", "\"",
           "database_operation", "\"", ", e", ")", ")", "?">>)

\* r'..."\\.to_string\(\)\)': in the raw string `\\` is an escaped backslash
\* and the `.` after it is the any-character wildcard.
permission_denied_to_string ==
    Rule(<<Lit("ChatError::PermissionDenied"), Lit("("), Lit("\""),
           GroupNot("\""), Lit("\""), Lit("\\"), AnyChar, Lit("to_string"),
           Lit("("), Lit(")"), Lit(")")>>,
         <<"ChatError::PermissionDenied", " { message: ", "\"", Group1, "\"",
           ".", "to_string", "(", ")", " }">>)

permission_denied ==
    Rule(<<Lit("ChatError::PermissionDenied"), Lit("("), Lit("\""),
           GroupNot("\""), Lit("\""), Lit(")")>>,
         <<"ChatError::PermissionDenied", " { message: ", "\"", Group1, "\"",
           ".", "to_string", "(", ")", " }">>)

reaction_already_exists ==
    Rule(<<Lit("ChatError::ReactionAlreadyExists"), Lit(")")>>,
         <<"ChatError::ReactionAlreadyExists">>)

reaction_not_found ==
    Rule(<<Lit("ChatError::ReactionNotFound"), Lit(")")>>,
         <<"ChatError::ReactionNotFound">>)

configuration_error_to_string ==
    Rule(<<Lit("ChatError::configuration_error"), Lit("("), Lit("\""),
           GroupNot("\""), Lit("\""), Lit("\\"), AnyChar, Lit("to_string"),
           Lit("("), Lit(")"), Lit(")")>>,
         <<"ChatError::configuration_error", "(", "\"", Group1, "\"", ")">>)

row_to_message_signature ==
    Rule(<<Lit("async fn row_to_message"), Lit("("),
           Lit("&self, row: sqlx::Row"), Lit(")"), Lit(" -> Result<Message>")>>,
         <<"async fn row_to_message<R: sqlx::Row>", "(", "&self, row: R", ")",
           " -> Result<Message>">>)

row_fields ==
    <<"id", "content", "author_id", "author_username", "room_id",
      "recipient_id", "recipient_username", "created_at", "updated_at",
      "status", "is_pinned", "is_edited", "original_content",
      "parent_message_id", "thread_count", "is_flagged", "moderation_notes",
      "message_type", "mention_ids">>

\* rf'row\.{field}' with nothing before `row` and nothing after the field
field_pattern_any_receiver(field) == <<Lit("."), Lit(field)>>

field_pattern(field) == <<Lit("row"), Lit("."), Lit(field)>>

\* f'row.try_get("{field}").unwrap_or_default()'
field_replacement(field) ==
    <<"row", ".", "try_get", "(", "\"", field, "\"", ")", ".",
      "unwrap_or_default", "(", ")">>

field_rule(field) == Rule(field_pattern(field), field_replacement(field))

\* for field in row_fields: content = re.sub(...)
RECURSIVE rewrite_row_fields(_, _)
rewrite_row_fields(k, text) ==
    IF k > Len(row_fields) THEN text
    ELSE LET r == field_rule(row_fields[k]) IN
         rewrite_row_fields(k + 1, re_sub(r.pat, r.repl, text, 0))

fix_message_store_errors(text) ==
    LET c1 == re_sub(map_err_database.pat, map_err_database.repl, text, 0)
        c2 == re_sub(permission_denied_to_string.pat,
                     permission_denied_to_string.repl, c1, 0)
        c3 == re_sub(permission_denied.pat, permission_denied.repl, c2, 0)
        c4 == re_sub(reaction_already_exists.pat, reaction_already_exists.repl, c3, 0)
        c5 == re_sub(reaction_not_found.pat, reaction_not_found.repl, c4, 0)
        c6 == re_sub(configuration_error_to_string.pat,
                     configuration_error_to_string.repl, c5, 0)
        c7 == re_sub(row_to_message_signature.pat,
                     row_to_message_signature.repl, c6, 0)
    IN  rewrite_row_fields(1, c7)

-----------------------------------------------------------------------------
(* fix_message_handler_errors: the rules of src/message_handler.rs         *)

validate_room_name ==
    Rule(<<Lit("self"), Lit("."), Lit("content_filter"), Lit("."),
           Lit("validate_room_name"), Lit("("), GroupNot(")"), Lit(")")>>,
         <<"self", ".", "content_filter", ".", "validate_content", "(",
           Group1, ")">>)

sanitize_content ==
    Rule(<<Lit("self"), Lit("."), Lit("content_filter"), Lit("."),
           Lit("sanitize_content"), Lit("("), GroupNot(")"), Lit(")")>>,
         <<"self", ".", "content_filter", ".", "validate_content", "(",
           Group1, ")">>)

fix_message_handler_errors(text) ==
    LET c1 == re_sub(validate_room_name.pat, validate_room_name.repl, text, 0)
    IN  re_sub(sanitize_content.pat, sanitize_content.repl, c1, 0)

-----------------------------------------------------------------------------
(* fix_error_severity: the rule of src/error.rs                            *)

message_too_long ==
    Rule(<<Lit("Self::MessageTooLong"), Lit(" { .. } => "), Lit("413,")>>, <<>>)

fix_error_severity_unbounded(text) ==
    re_sub(message_too_long.pat, message_too_long.repl, text, 0)

\* count=1
fix_error_severity(text) ==
    re_sub(message_too_long.pat, message_too_long.repl, text, 1)

-----------------------------------------------------------------------------
(* fix_unused_imports: the rules applied to each of files_to_fix           *)

rm_tungstenite_message ==
    Rule(<<Lit("use"), DotStar, Lit("tungstenite::Message;"), Lit("\n")>>, <<>>)
rm_error == Rule(<<Lit(", error")>>, <<>>)
rm_hashmap == Rule(<<Lit("use"), Lit(" std::collections::HashMap;"), Lit("\n")>>, <<>>)
rm_systemtime_unix_epoch == Rule(<<Lit(", SystemTime"), Lit(", UNIX_EPOCH")>>, <<>>)
rm_deserialize == Rule(<<Lit(", Deserialize")>>, <<>>)
rm_error_result == Rule(<<Lit("use"), Lit(" crate::error::Result;"), Lit("\n")>>, <<>>)
rm_unix_epoch == Rule(<<Lit(", UNIX_EPOCH")>>, <<>>)
rm_serialize_deserialize == Rule(<<Lit(", Serialize"), Lit(", Deserialize")>>, <<>>)
rm_ws_result == Rule(<<Lit(", Result as WsResult")>>, <<>>)
underscore_blocked_by ==
    Rule(<<Lit("let "), Lit("blocked_by")>>, <<"let ", "_blocked_by">>)
drop_mut_config ==
    Rule(<<Lit("let "), Lit("mut "), Lit("config")>>, <<"let ", "config">>)

Sub(r, text) == re_sub(r.pat, r.repl, text, 0)

\* lines 146-158 with the rules of lines 150 and 153 exchanged
rewrite_imports_serialize_first(text) ==
    LET c1 == Sub(rm_tungstenite_message, text)
        c2 == Sub(rm_error, c1)
        c3 == Sub(rm_hashmap, c2)
        c4 == Sub(rm_systemtime_unix_epoch, c3)
        c5 == Sub(rm_serialize_deserialize, c4)
        c6 == Sub(rm_error_result, c5)
        c7 == Sub(rm_unix_epoch, c6)
        c8 == Sub(rm_deserialize, c7)
        c9 == Sub(rm_ws_result, c8)
        c10 == Sub(underscore_blocked_by, c9)
    IN  Sub(drop_mut_config, c10)

rewrite_imports(text) ==
    LET c1 == Sub(rm_tungstenite_message, text)
        c2 == Sub(rm_error, c1)
        c3 == Sub(rm_hashmap, c2)
        c4 == Sub(rm_systemtime_unix_epoch, c3)
        c5 == Sub(rm_deserialize, c4)
        c6 == Sub(rm_error_result, c5)
        c7 == Sub(rm_unix_epoch, c6)
        c8 == Sub(rm_serialize_deserialize, c7)
        c9 == Sub(rm_ws_result, c8)
        c10 == Sub(underscore_blocked_by, c9)
    IN  Sub(drop_mut_config, c10)

-----------------------------------------------------------------------------
(* The target files, in the order main() reaches them.                     *)

files_to_fix ==
    <<"src/hub/channel_websocket.rs", "src/hub/direct_messages_websocket.rs",
      "src/moderation.rs", "src/monitoring.rs", "src/security.rs",
      "src/websocket.rs">>

Targets ==
    <<"src/message_store.rs", "src/message_handler.rs", "src/error.rs">>
        \o files_to_fix

TargetFiles == {Targets[i] : i \in 1..Len(Targets)}

IndexOf(f) == CHOOSE i \in 1..Len(Targets) : Targets[i] = f

\* what the function that handles position i computes from the text read
Rewrite(i, text) ==
    CASE i = 1 -> fix_message_store_errors(text)
      [] i = 2 -> fix_message_handler_errors(text)
      [] i = 3 -> fix_error_severity(text)
      [] OTHER -> rewrite_imports(text)

-----------------------------------------------------------------------------
(* The input texts: up to a bounded number of parts, each a piece of Rust. *)

StoreParts ==
    { <<"row", ".", "id">>,
      <<"result", ".", "id">>,
      <<"result", ".", "other_field">>,
      <<"row", ".", "id", "entifier">>,
      <<"row", ".", "status", "_code">>,
      <<"ar", "row", ".", "id">>,
      <<"ChatError::PermissionDenied", "(", "\"", "denied", "\"", ")">>,
      <<"ChatError::PermissionDenied", "(", "\"", "denied", "\"", ".",
        "to_string", "(", ")", ")">>,
      <<"ChatError::PermissionDenied", "(", "\"", "denied", "\"", "\\", "x",
        "to_string", "(", ")", ")">>,
      <<"ChatError::configuration_error", "(", "\"", "bad", "\"", ".",
        "to_string", "(", ")", ")">>,
      <<".", "map_err", "(", "ChatError::Database", ")", "?">> }

HandlerParts ==
    { <<"self", ".", "content_filter", ".", "validate_room_name", "(",
        "name", ")">>,
      <<"self", ".", "content_filter", ".", "sanitize_content", "(",
        "text", ")">>,
      <<"self", ".", "content_filter", ".", "validate_content", "(",
        "text", ")">> }

SeverityEntry == <<"Self::MessageTooLong", " { .. } => ", "413,">>

SeverityParts ==
    { SeverityEntry,
      <<"Self::MessageTooLong", " { .. } => ", "400,">>,
      <<"Self::MessageTooLong">>,
      <<" { .. } => ", "413,">> }

SerdeLine ==
    <<"use", " serde::{Debug", ", Serialize", ", Deserialize", "};", "\n">>

ImportParts ==
    { SerdeLine,
      <<"use", " std::time::{Duration", ", SystemTime", ", UNIX_EPOCH", "};",
        "\n">>,
      <<"use", " tokio_tungstenite::", "tungstenite::Message;", "\n">>,
      <<"use", " std::collections::HashMap;", "\n">>,
      <<"let ", "mut ", "config", " = load", "(", ")", "\n">> }

\* the concatenations of at most n of the parts
RECURSIVE Texts(_, _)
Texts(parts, n) ==
    IF n = 0 THEN {<<>>}
    ELSE LET T == Texts(parts, n - 1) IN T \cup {t \o q : t \in T, q \in parts}

InputsOf(f) ==
    CASE f = Targets[1] -> Texts(StoreParts, MaxStoreParts)
      [] f = Targets[2] -> Texts(HandlerParts, MaxHandlerParts)
      [] f = Targets[3] -> Texts(SeverityParts, MaxSeverityParts)
      [] OTHER -> Texts(ImportParts, MaxImportParts)

Baseline(f) ==
    CASE f = Targets[1] -> <<"row", ".", "id">>
      [] f = Targets[2] -> <<"self", ".", "content_filter", ".",
                             "validate_content", "(", "text", ")">>
      [] f = Targets[3] -> SeverityEntry
      [] OTHER -> SerdeLine

-----------------------------------------------------------------------------
(* The run.                                                                *)

\* Either one file holds any of its input texts and the others their usual
\* text, or some files (and perhaps the directory) are missing.
Init ==
    /\ \/ /\ dirExists = TRUE
          /\ present = TargetFiles
          /\ \E v \in TargetFiles : \E c \in InputsOf(v) :
                original = [f \in TargetFiles |->
                               IF f = v THEN c ELSE Baseline(f)]
       \/ /\ dirExists \in BOOLEAN
          /\ \E m \in SUBSET TargetFiles :
                /\ Cardinality(m) <= MaxMissing
                /\ present = TargetFiles \ m
                /\ original = [f \in TargetFiles |->
                                  IF f \in m THEN <<>> ELSE Baseline(f)]
    /\ disk = original
    /\ content = <<>>
    /\ pc = "chdir"
    /\ idx = 0
    /\ opened = {}
    /\ failedAt = ""
    /\ verifyCount = 0

\* main(): os.chdir(...) raises FileNotFoundError if the directory is missing
Chdir ==
    /\ pc = "chdir"
    /\ IF dirExists
       THEN pc' = "read" /\ idx' = 1 /\ UNCHANGED failedAt
       ELSE pc' = "aborted" /\ failedAt' = "chdir" /\ UNCHANGED idx
    /\ UNCHANGED <<dirExists, present, original, disk, content, opened,
                   verifyCount>>

\* with open(file_path, 'r') as f: content = f.read(), then the re.sub calls.
\* Nothing catches the FileNotFoundError of a missing file.
ReadAndRewrite(i) ==
    /\ pc = "read"
    /\ idx = i
    /\ IF Targets[i] \in present
       THEN /\ content' = Rewrite(i, disk[Targets[i]])
            /\ pc' = "open_w"
            /\ UNCHANGED failedAt
       ELSE /\ pc' = "aborted"
            /\ failedAt' = Targets[i]
            /\ UNCHANGED content
    /\ UNCHANGED <<dirExists, present, original, disk, idx, opened, verifyCount>>

fix_message_store_errors_read == ReadAndRewrite(1)

fix_message_handler_errors_read == ReadAndRewrite(2)

fix_error_severity_read == ReadAndRewrite(3)

\* the position after the file at idx
Advance ==
    /\ idx' = idx + 1
    /\ pc' = IF idx = Len(Targets) THEN "verify" ELSE "read"

\* for file_path in files_to_fix: if os.path.exists(file_path): ...
fix_unused_imports_read ==
    /\ pc = "read"
    /\ idx > 3
    /\ IF Targets[idx] \in present
       THEN /\ content' = Rewrite(idx, disk[Targets[idx]])
            /\ pc' = "open_w"
            /\ UNCHANGED idx
       ELSE Advance /\ UNCHANGED content
    /\ UNCHANGED <<dirExists, present, original, disk, opened, failedAt,
                   verifyCount>>

\* open(file_path, 'w'): the file is truncated when it is opened
OpenWrite ==
    /\ pc = "open_w"
    /\ disk' = [disk EXCEPT ![Targets[idx]] = <<>>]
    /\ opened' = opened \cup {Targets[idx]}
    /\ pc' = "write"
    /\ UNCHANGED <<dirExists, present, original, content, idx, failedAt,
                   verifyCount>>

\* f.write(content) and the close at the end of the with block
WriteClose ==
    /\ pc = "write"
    /\ disk' = [disk EXCEPT ![Targets[idx]] = content]
    /\ Advance
    /\ UNCHANGED <<dirExists, present, original, content, opened, failedAt,
                   verifyCount>>

\* The process is killed between open(file_path, 'w') and the close: the
\* file holds what had been written out by then, any prefix of content.
Interrupt ==
    /\ pc = "write"
    /\ \E k \in 0..Len(content) :
          disk' = [disk EXCEPT ![Targets[idx]] = SubSeq(content, 1, k)]
    /\ pc' = "killed"
    /\ UNCHANGED <<dirExists, present, original, content, idx, opened,
                   failedAt, verifyCount>>

\* os.system("cargo check"); its exit status is not looked at
Verify ==
    /\ pc = "verify"
    /\ verifyCount' = verifyCount + 1
    /\ pc' = "done"
    /\ UNCHANGED <<dirExists, present, original, disk, content, idx, opened,
                   failedAt>>

Next ==
    \/ Chdir
    \/ fix_message_store_errors_read
    \/ fix_message_handler_errors_read
    \/ fix_error_severity_read
    \/ fix_unused_imports_read
    \/ OpenWrite
    \/ WriteClose
    \/ Interrupt
    \/ Verify

Spec == Init /\ [][Next]_vars

-----------------------------------------------------------------------------
(* Vocabulary of the properties.                                           *)

\* the positions of text at which the pieces w stand
Occurrences(w, text) ==
    {p \in 1..(Len(text) - Len(w) + 1) : SubSeq(text, p, p + Len(w) - 1) = w}

Count(w, text) == Cardinality(Occurrences(w, text))

Min(S) == CHOOSE m \in S : \A n \in S : m <= n

\* pat matches somewhere in text
Found(pat, text) == \E i \in 1..Len(text) : Match(pat, text, i) # NoMatch

\* the file at position i has been written and closed
Processed(i) == idx > i /\ Targets[i] \in opened

\* the file at position i has just been written and closed
JustProcessed(i) == idx = i + 1 /\ pc \in {"read", "verify"} /\ Targets[i] \in opened

\* the composition of the rules, left to right
RECURSIVE Compose(_, _)
Compose(rules, text) ==
    IF rules = <<>> THEN text
    ELSE Compose(Tail(rules), re_sub(Head(rules).pat, Head(rules).repl, text, 0))

RowDotId == <<"row", ".", "id">>
ResultDotId == <<"result", ".", "id">>
ResultDotOtherField == <<"result", ".", "other_field">>

\* <receiver>.try_get("<field>").unwrap_or_default()
Accessor(receiver, field) ==
    <<receiver, ".", "try_get", "(", "\"", field, "\"", ")", ".",
      "unwrap_or_default", "(", ")">>

\* <name>("<msg>".to_string())
TupleToString(name) ==
    <<Lit(name), Lit("("), Lit("\""), GroupNot("\""), Lit("\""), Lit("."),
      Lit("to_string"), Lit("("), Lit(")"), Lit(")")>>

\* <name>("<msg>")
TupleLiteral(name) ==
    <<Lit(name), Lit("("), Lit("\""), GroupNot("\""), Lit("\""), Lit(")")>>

-----------------------------------------------------------------------------
(* The properties.                                                         *)

\* C1: a target file that does not exist never aborts the run: the run
\* skips it, goes on with the remaining files and reaches the verification.
C1_MissingFileNeverAborts ==
    ~(pc = "aborted" /\ failedAt \in TargetFiles)

\* C2: the write-back is atomic: if the process is interrupted while a file
\* is being written, the file holds its complete original content or its
\* complete rewritten content.
C2_AtomicWrite ==
    pc = "killed" =>
        disk[Targets[idx]] \in {original[Targets[idx]], content}

\* C3: a file is opened for writing only if its rules changed the text read
\* from it.
C3_WriteOnlyIfChanged ==
    \A f \in opened : Rewrite(IndexOf(f), original[f]) # original[f]

\* C4: idempotence: once a run has completed, applying a file's rules to
\* the text the run left in it changes nothing, so that a second run gives
\* the same files as the first.
C4_Idempotent ==
    pc = "done" =>
        \A i \in 1..Len(Targets) :
            Targets[i] \in present =>
                Rewrite(i, disk[Targets[i]]) = disk[Targets[i]]

\* C5: cargo check is invoked exactly once in every run that has entered
\* the working directory, only after every target file has been dealt
\* with, and never twice.
C5_VerifyOnceAfterAll ==
    /\ verifyCount <= 1
    /\ verifyCount = 1 => idx = Len(Targets) + 1
    /\ (dirExists /\ pc \in {"done", "aborted"}) => verifyCount = 1

unused_import_rules ==
    <<rm_tungstenite_message, rm_error, rm_hashmap, rm_systemtime_unix_epoch,
      rm_deserialize, rm_error_result, rm_unix_epoch, rm_serialize_deserialize,
      rm_ws_result, underscore_blocked_by, drop_mut_config>>

\* the rules of fix_message_store_errors in their declared order
message_store_rules ==
    <<map_err_database, permission_denied_to_string, permission_denied,
      reaction_already_exists, reaction_not_found,
      configuration_error_to_string, row_to_message_signature>>
        \o [k \in 1..Len(row_fields) |->
               Rule(<<Lit("row"), Lit("."), Lit(row_fields[k])>>,
                    Accessor("row", row_fields[k]))]

\* C8: the content written for a file is the left-to-right composition of
\* its rules, in their declared order, on the content read: each rule works
\* on what the rules before it left.
C8_DeclaredOrder ==
    /\ JustProcessed(1) =>
          disk[Targets[1]] = Compose(message_store_rules, original[Targets[1]])
    /\ JustProcessed(2) =>
          disk[Targets[2]]
             = Compose(<<validate_room_name, sanitize_content>>,
                       original[Targets[2]])
    /\ \A i \in 4..Len(Targets) :
          JustProcessed(i) =>
              disk[Targets[i]] = Compose(unused_import_rules, original[Targets[i]])

\* C8 witness: an import file held `, Serialize, Deserialize`; the rule for
\* `, Deserialize` ran first, so `, Serialize` is still there.
C8_SerializeKept ==
    \E i \in 4..Len(Targets) :
        /\ JustProcessed(i)
        /\ Count(<<", Serialize", ", Deserialize">>, original[Targets[i]]) >= 1
        /\ Count(<<", Serialize">>, disk[Targets[i]])
              = Count(<<", Serialize">>, original[Targets[i]])
        /\ Count(<<", Deserialize">>, disk[Targets[i]]) = 0

\* C9: the field rewriting leaves alone a field that only starts with a
\* listed name (`row.identifier`, `row.status_code`) and a receiver that
\* only ends in `row` (`arrow.id`).
C9_OnlyExactRowFields ==
    Processed(1) =>
        LET o == original[Targets[1]]
            d == disk[Targets[1]]
        IN  /\ Count(<<"row", ".", "id", "entifier">>, d)
                  = Count(<<"row", ".", "id", "entifier">>, o)
            /\ Count(<<"row", ".", "status", "_code">>, d)
                  = Count(<<"row", ".", "status", "_code">>, o)
            /\ Count(<<"ar", "row", ".", "id">>, d)
                  = Count(<<"ar", "row", ".", "id">>, o)

\* C10: once message_store.rs has been written it holds no
\* `ChatError::PermissionDenied("<msg>")`, no
\* `ChatError::PermissionDenied("<msg>".to_string())` and no
\* `ChatError::configuration_error("<msg>".to_string())`.
C10_NoTupleStyleLeft ==
    Processed(1) =>
        LET d == disk[Targets[1]]
        IN  /\ ~Found(TupleLiteral("ChatError::PermissionDenied"), d)
            /\ ~Found(TupleToString("ChatError::PermissionDenied"), d)
            /\ ~Found(TupleToString("ChatError::configuration_error"), d)

=============================================================================
